---- MODULE Spec2Model ----
(***************************************************************************)
(* Margin tracker: the live-editing synchronisation of one style record.   *)
(*                                                                         *)
(* The model follows one DashboardRow (src/src/components/Dashboard.tsx)   *)
(* for one record of the store, together with the parts of Dashboard that  *)
(* feed it: handleUpdate (withRetry around the store's update), the        *)
(* real-time subscription, the toast context whose identity is a           *)
(* dependency of handleUpdate, and the detail drawer's Save.               *)
(*                                                                         *)
(* React is modelled with automatic batching (React 18): every event       *)
(* (an input event, a timer, a promise continuation, a push event) sets    *)
(* state, the component renders once, and the effects whose dependencies   *)
(* changed run in declaration order with that render's values.  One action *)
(* of the model is one such event together with the render and the         *)
(* effects it causes.                                                      *)
(*                                                                         *)
(* A JavaScript number is modelled as a pair <<k, h>> standing for         *)
(* k + h/2 (h in {0, 1}), so that non-integers exist; Absent stands for    *)
(* undefined, null and the empty string.                                   *)
(***************************************************************************)
EXTENDS Integers, Sequences, FiniteSets, Bags, TLC

(***************************************************************************)
(* Bounds of the model.                                                    *)
(***************************************************************************)
\* the largest number of persist operations of the record in flight at once
MaxInFlight == 2
\* the number of events that come from outside the client's control flow:
\* edits of the user, retried failures of the store, updates by other clients
MaxEvents == 2

\* the largest number of push events waiting for delivery to the client
MaxQueue == MaxInFlight

(***************************************************************************)
(* Numbers.                                                                *)
(***************************************************************************)
Absent == <<>>

N(k) == <<k, 0>>

NHalf(k) == <<k, 1>>

IsInteger(v) == v[2] = 0

\* v < m, for an integer m
Less(v, m) == v[1] < m

\* v > m, for an integer m
Greater(v, m) == v[1] > m \/ (v[1] = m /\ v[2] = 1)

\* v <= 0
NotPositive(v) == ~Greater(v, 0)

(***************************************************************************)
(* Validation (src/src/utils/validation.ts).                               *)
(***************************************************************************)
MIN_RATE == 1
MAX_RATE == 200
MIN_PRICE == 0
MIN_UNITS == 1
MAX_UNITS == 1000000
MIN_PACK == 1
MAX_PACK == 10000
\* max defaults to Infinity: the set of upper limits is empty
NoMax == {}

Fields == {"units", "pack", "price", "rate", "extraCost", "sellingPrice"}

\* validatePositiveNumber: TRUE when it returns an error message.  max is
\* the set holding the upper limit, NoMax where the caller passes none.
ValidatePositiveNumberFails(v, min, max, required, integer) ==
    IF v = Absent THEN required
    ELSE \/ integer /\ ~IsInteger(v)
         \/ Less(v, min)
         \/ \E m \in max : Greater(v, m)

\* validateField: TRUE when it returns an error message
ValidateFieldFails(field, v) ==
    CASE field = "units" -> ValidatePositiveNumberFails(v, MIN_UNITS, {MAX_UNITS}, TRUE, TRUE)
      [] field = "pack" -> ValidatePositiveNumberFails(v, MIN_PACK, {MAX_PACK}, TRUE, TRUE)
      [] field = "price" ->
            \/ ValidatePositiveNumberFails(v, MIN_PRICE, NoMax, TRUE, FALSE)
            \/ NotPositive(v)
      [] field = "rate" -> ValidatePositiveNumberFails(v, MIN_RATE, {MAX_RATE}, TRUE, FALSE)
      [] field = "extraCost" -> ValidatePositiveNumberFails(v, 0, NoMax, FALSE, FALSE)
      [] field = "sellingPrice" ->
            \/ ValidatePositiveNumberFails(v, MIN_PRICE, NoMax, TRUE, FALSE)
            \/ NotPositive(v)
      [] OTHER -> FALSE

\* validateStyleData(data).isValid: the record validator over all six fields
ValidateStyleDataIsValid(s) == \A f \in Fields : ~ValidateFieldFails(f, s[f])

(***************************************************************************)
(* Snapshots of the record and the inputs the model draws.                 *)
(***************************************************************************)
InitialStyle ==
    [units |-> N(1), pack |-> N(1), price |-> N(1), rate |-> N(1),
     extraCost |-> N(0), sellingPrice |-> N(1)]

\* what the user types into the row's units input: the original value, another
\* valid one, and one that fails validation
RowInputs == {N(1), N(2), NHalf(1)}

\* what the user types into the drawer's pack input
DrawerInputs == {N(0)}

\* what another client writes to the record's units
OtherClientInputs == {N(3)}

(***************************************************************************)
(* State.                                                                  *)
(***************************************************************************)
VARIABLES
    style,              \* the row's style prop: the record in Dashboard's styles
    localStyle,         \* DashboardRow state: the locally edited snapshot
    debouncedStyle,     \* useDebounce state: the debounced snapshot
    debounceTimer,      \* useDebounce's pending timeout: <<>> or <<its value>>
    hasUnsavedChanges,  \* DashboardRow state: the dirty flag
    saveStatus,         \* DashboardRow state: idle, pending, saving, success, error
    previousStyleRef,   \* DashboardRow ref: the last style prop seen
    idleTimers,         \* whether a setTimeout(() => setSaveStatus('idle')) is pending
    ops,                \* handleUpdate calls in flight: a bag of operations
    toasts,             \* whether toasts are on display (ToastProvider state)
    server,             \* the record in the store
    pushQ,              \* update events of the record on their way to the client
    drawerStyle,        \* Dashboard state: <<>> (null) or <<the style in the drawer>>
    editState,          \* ContextDrawer state: the drawer's edited fields
    hasChanges,         \* ContextDrawer state
    isSaving,           \* ContextDrawer state
    fetchResp,          \* fetchStyles' response on its way: <<>> or <<the record>>
    errors,             \* DashboardRow state: the units entry of errors: "none"
                        \* (no key), "clear" (undefined) or "message"
    touched,            \* DashboardRow state: whether touchedFields has units
    burst,              \* history: <<>>, or <<the onUpdate calls of the row since
                        \* the first edit of the burst that has not settled yet>>
    events,             \* edits, retries and other clients' updates so far
    wr,                 \* one execution of withRetry (see below)
    imp,                \* ImportData: the preview and one run of handleImport
    del,                \* the list, the selection and one run of a bulk delete
    mounted,            \* whether the DashboardRow is mounted
    sub,                \* Dashboard's subscription effect and what it started
    fm,                 \* the records on display and what one consumer derives
    lst                 \* Dashboard's record list, the store and what is in flight

vars ==
    <<style, localStyle, debouncedStyle, debounceTimer, hasUnsavedChanges,
      saveStatus, previousStyleRef, idleTimers, ops, toasts, server, pushQ,
      drawerStyle, editState, hasChanges, isSaving, fetchResp, errors, touched,
      burst, events, wr, imp, del, mounted, sub, fm, lst>>

\* the state of the live-editing synchronisation
syncVars ==
    <<style, localStyle, debouncedStyle, debounceTimer, hasUnsavedChanges,
      saveStatus, previousStyleRef, idleTimers, ops, toasts, server, pushQ,
      drawerStyle, editState, hasChanges, isSaving, fetchResp, errors, touched,
      burst, events>>

\* the state of the other parts of the program
otherVars == <<wr, imp, del, mounted, sub, fm, lst>>

rowVars ==
    <<style, localStyle, debouncedStyle, debounceTimer, hasUnsavedChanges,
      saveStatus, previousStyleRef, errors, touched>>

drawerVars == <<drawerStyle, editState, hasChanges, isSaving>>

\* withRetry's maxRetries as handleUpdate passes it
MaxRetries == 3

One(o) == SetToBag({o})

\* The toast context value is a new object whenever the toasts change, so
\* Dashboard's effect on [customerId, fetchStyles, toast] runs again and calls
\* fetchStyles: the store answers with the record as it is.
Refetch == fetchResp' = <<server>>

InFlight == BagCardinality(ops)

(***************************************************************************)
(* DashboardRow: the render and its effects.                               *)
(***************************************************************************)
\* hasValidationErrors(): validateField over the fields the row checks
RowCheckedFields == {"units", "price", "rate", "extraCost", "sellingPrice"}

HasValidationErrors(lo) == \E f \in RowCheckedFields : ValidateFieldFails(f, lo[f])

\* the external-sync effect: it runs when style or hasUnsavedChanges changed,
\* and sees a change when the style prop differs from previousStyleRef
SyncSeesChange(st, prev, ch) == ({"style", "dirty"} \cap ch # {}) /\ st # prev

\* ... and replaces the local snapshot only when there are no unsaved changes
SyncApplies(st, prev, di, ch) == SyncSeesChange(st, prev, ch) /\ ~di

\* the auto-save effect's dependencies: debouncedStyle, style, onUpdate,
\* hasUnsavedChanges, hasValidationErrors (a callback of localStyle)
PerformSaveRuns(ch) == {"deb", "style", "onUpdate", "dirty", "local"} \cap ch # {}

\* performSave's condition
SaveWanted(db, st, di) == db # st /\ di

\* the arguments and closure of one onUpdate call: withRetry starts at attempt 1
NewOp(kind, data, st) ==
    [kind |-> kind, data |-> data, cstyle |-> st, attempt |-> 1, phase |-> "req"]

\* validateField(field, value) || undefined, as setErrors stores it
FieldError(v) == IF ValidateFieldFails("units", v) THEN "message" ELSE "clear"

\* The field errors after one render: the external-sync effect, when it
\* replaces the local snapshot, also calls setErrors({}) and
\* setTouchedFields(new Set()); er and to are the values the event leaves.
SyncErrors(st, di, ch, er, to) ==
    IF ~mounted
      THEN errors' = errors /\ touched' = touched
    ELSE IF SyncApplies(st, previousStyleRef, di, ch)
      THEN errors' = "none" /\ touched' = FALSE
      ELSE errors' = er /\ touched' = to

\* the history of the open burst b after n more onUpdate calls (2 stands for
\* two or more)
Called(b, n) == IF b = <<>> THEN <<>> ELSE <<IF b[1] + n > 2 THEN 2 ELSE b[1] + n>>

\* One render of the row and the effects it runs.  st, lo, db, di are the
\* values of style, localStyle, debouncedStyle and hasUnsavedChanges in the
\* render, status and timer the save status and debounce timer the event
\* leaves, ch the dependencies that changed, base the operations in flight,
\* b the burst history the event leaves.  Once the row is unmounted nothing is
\* rendered, no effect runs and the state setters do nothing: only Dashboard's
\* list, the timers and the operations in flight go on.
Render(st, lo, db, di, status, timer, ch, base, b) ==
    LET applies == SyncApplies(st, previousStyleRef, di, ch)
        lo2 == IF applies THEN st ELSE lo
        saves == PerformSaveRuns(ch) /\ SaveWanted(db, st, di)
    IN  IF ~mounted
          THEN /\ style' = st
               /\ debounceTimer' = timer
               /\ ops' = base
               /\ burst' = b
               /\ UNCHANGED <<localStyle, debouncedStyle, hasUnsavedChanges,
                              previousStyleRef, saveStatus>>
          ELSE
            /\ style' = st
            /\ localStyle' = lo2
            /\ debouncedStyle' = db
            /\ hasUnsavedChanges' = di
            /\ debounceTimer' = IF "local" \in ch \/ applies THEN <<lo2>> ELSE timer
            /\ previousStyleRef' = IF SyncSeesChange(st, previousStyleRef, ch)
                                      THEN st ELSE previousStyleRef
            /\ IF saves
                 THEN IF HasValidationErrors(lo)
                        THEN saveStatus' = "error" /\ ops' = base /\ burst' = b
                        ELSE /\ BagCardinality(base) < MaxInFlight
                             /\ saveStatus' = "saving"
                             /\ ops' = base (+) One(NewOp("row", db, st))
                             /\ burst' = Called(b, 1)
                 ELSE saveStatus' = status /\ ops' = base /\ burst' = b

(***************************************************************************)
(* Events.                                                                 *)
(***************************************************************************)
\* the units input's onChange, which fires when the typed value differs from
\* the displayed one: handleChange('units', Number(e.target.value))
HandleChange(v) ==
    /\ mounted
    /\ v # localStyle.units
    /\ events < MaxEvents
    /\ events' = events + 1
    /\ Render(style, [localStyle EXCEPT !.units = v], debouncedStyle, TRUE,
              "pending", debounceTimer,
              IF hasUnsavedChanges THEN {"local"} ELSE {"local", "dirty"}, ops,
              IF burst = <<>> THEN <<0>> ELSE burst)
    /\ SyncErrors(style, TRUE, {"local"},
                  IF errors # "none" \/ touched THEN FieldError(v) ELSE errors, touched)
    /\ UNCHANGED <<drawerVars, idleTimers, toasts, server, pushQ, fetchResp>>
    /\ UNCHANGED otherVars

\* useDebounce's timeout fires: setDebouncedValue(value)
DebounceFire ==
    /\ debounceTimer # <<>>
    /\ Render(style, localStyle, debounceTimer[1], hasUnsavedChanges,
              saveStatus, <<>>, {"deb"}, ops, <<>>)
    /\ SyncErrors(style, hasUnsavedChanges, {"deb"}, errors, touched)
    /\ UNCHANGED <<drawerVars, idleTimers, toasts, server, pushQ, events, fetchResp>>
    /\ UNCHANGED otherVars

\* the subscription callback for an update event of the record
PushDeliver ==
    /\ pushQ # <<>>
    /\ Render(Head(pushQ), localStyle, debouncedStyle, hasUnsavedChanges,
              saveStatus, debounceTimer, {"style"}, ops, burst)
    /\ pushQ' = Tail(pushQ)
    /\ SyncErrors(Head(pushQ), hasUnsavedChanges, {"style"}, errors, touched)
    /\ UNCHANGED <<drawerVars, idleTimers, toasts, server, events, fetchResp>>
    /\ UNCHANGED otherVars

\* fetchStyles' response arrives: setStyles(records)
FetchDeliver ==
    /\ fetchResp # <<>>
    /\ fetchResp' = <<>>
    /\ Render(fetchResp[1], localStyle, debouncedStyle, hasUnsavedChanges,
              saveStatus, debounceTimer, {"style"}, ops, burst)
    /\ SyncErrors(fetchResp[1], hasUnsavedChanges, {"style"}, errors, touched)
    /\ UNCHANGED <<drawerVars, idleTimers, toasts, server, pushQ, events>>
    /\ UNCHANGED otherVars

\* a toast leaves the display: the toast context value changes, and with it
\* handleUpdate, the row's onUpdate prop
ToastExpire ==
    /\ toasts
    /\ toasts' = FALSE
    /\ Refetch
    /\ Render(style, localStyle, debouncedStyle, hasUnsavedChanges,
              saveStatus, debounceTimer, {"onUpdate"}, ops, burst)
    /\ SyncErrors(style, hasUnsavedChanges, {"onUpdate"}, errors, touched)
    /\ UNCHANGED <<drawerVars, idleTimers, server, pushQ, events>>
    /\ UNCHANGED otherVars

\* the units input loses the focus: handleBlur('units')
HandleBlur ==
    /\ mounted
    /\ touched' = TRUE
    /\ errors' = FieldError(localStyle.units)
    /\ ~(touched /\ errors = errors')
    /\ UNCHANGED <<style, localStyle, debouncedStyle, debounceTimer,
                   hasUnsavedChanges, saveStatus, previousStyleRef, idleTimers, ops,
                   toasts, server, pushQ, drawerVars, fetchResp, burst, events>>
    /\ UNCHANGED otherVars

\* setTimeout(() => setSaveStatus('idle'), ...) fires
IdleTimerFire ==
    /\ idleTimers
    /\ idleTimers' = FALSE
    /\ saveStatus' = IF mounted THEN "idle" ELSE saveStatus
    /\ UNCHANGED <<style, localStyle, debouncedStyle, debounceTimer,
                   hasUnsavedChanges, previousStyleRef, errors, touched, ops, toasts,
                   server, pushQ, drawerVars, events, fetchResp, burst>>
    /\ UNCHANGED otherVars

\* the store applies an update request and publishes the update event
ServerApply(o) ==
    /\ o.phase = "req"
    /\ Len(pushQ) < MaxQueue
    /\ server' = o.data
    /\ pushQ' = Append(pushQ, o.data)
    /\ ops' = (ops (-) One(o)) (+) One([o EXCEPT !.phase = "applied"])
    /\ UNCHANGED <<rowVars, idleTimers, toasts, drawerVars, events, fetchResp, burst>>
    /\ UNCHANGED otherVars

\* another client updates the record
OtherClientUpdate(v) ==
    /\ Len(pushQ) < MaxQueue
    /\ events < MaxEvents
    /\ events' = events + 1
    /\ server' = [server EXCEPT !.units = v]
    /\ pushQ' = Append(pushQ, server')
    /\ UNCHANGED <<rowVars, idleTimers, ops, toasts, drawerVars, fetchResp, burst>>
    /\ UNCHANGED otherVars

\* the update's response arrives: withRetry returns, handleUpdate shows the
\* 'Saved' toast and returns true, performSave continues on success
SaveSucceed(o) ==
    /\ o.phase = "applied"
    /\ o.kind = "row"
    /\ toasts' = TRUE
    /\ Refetch
    /\ idleTimers' = TRUE
    /\ Render(style, localStyle, debouncedStyle, FALSE, "success", debounceTimer,
              IF hasUnsavedChanges THEN {"onUpdate", "dirty"} ELSE {"onUpdate"},
              ops (-) One(o), burst)
    /\ SyncErrors(style, FALSE, {"onUpdate", "dirty"}, "none", FALSE)
    /\ UNCHANGED <<drawerVars, server, pushQ, events>>
    /\ UNCHANGED otherVars

\* the update fails with a retryable error and attempts remain: onRetry shows
\* the 'Save failed' toast and withRetry calls the operation again
SaveRetry(o) ==
    /\ o.phase = "req"
    /\ o.attempt < MaxRetries
    /\ events < MaxEvents
    /\ events' = events + 1
    /\ toasts' = TRUE
    /\ Refetch
    /\ Render(style, localStyle, debouncedStyle, hasUnsavedChanges, saveStatus,
              debounceTimer, {"onUpdate"},
              (ops (-) One(o)) (+) One([o EXCEPT !.attempt = @ + 1]), burst)
    /\ SyncErrors(style, hasUnsavedChanges, {"onUpdate"}, errors, touched)
    /\ UNCHANGED <<drawerVars, idleTimers, server, pushQ>>
    /\ UNCHANGED otherVars

\* the update fails for good (a terminal error, or a retryable one at the last
\* attempt): handleUpdate shows the 'Failed to save' toast and returns false,
\* performSave continues on failure
SaveFail(o) ==
    /\ o.phase = "req"
    /\ o.kind = "row"
    /\ toasts' = TRUE
    /\ Refetch
    /\ idleTimers' = TRUE
    /\ Render(style, o.cstyle, debouncedStyle, FALSE, "error", debounceTimer,
              IF hasUnsavedChanges THEN {"onUpdate", "local", "dirty"}
                                   ELSE {"onUpdate", "local"},
              ops (-) One(o), burst)
    /\ SyncErrors(style, FALSE, {"onUpdate", "local", "dirty"}, errors, touched)
    /\ UNCHANGED <<drawerVars, server, pushQ, events>>
    /\ UNCHANGED otherVars

(***************************************************************************)
(* The detail drawer (ContextDrawer).                                      *)
(***************************************************************************)
\* a click on the row's style cell: openDrawer(style), and the drawer's sync
\* effect when its style prop changed
OpenDrawer ==
    /\ mounted
    /\ drawerStyle # <<style>>
    /\ drawerStyle' = <<style>>
    /\ editState' = style
    /\ hasChanges' = FALSE
    /\ UNCHANGED <<rowVars, idleTimers, ops, toasts, server, pushQ, isSaving, events, fetchResp, burst>>
    /\ UNCHANGED otherVars

\* the drawer's pack input's onChange:
\* handleFieldChange('pack', Number(e.target.value))
HandleFieldChange(v) ==
    /\ drawerStyle # <<>>
    /\ v # editState.pack
    /\ events < MaxEvents
    /\ events' = events + 1
    /\ editState' = [editState EXCEPT !.pack = v]
    /\ hasChanges' = TRUE
    /\ UNCHANGED <<rowVars, idleTimers, ops, toasts, server, pushQ, drawerStyle, isSaving, fetchResp, burst>>
    /\ UNCHANGED otherVars

\* handleSave: the Save button is disabled while saving or without changes
HandleSave ==
    /\ drawerStyle # <<>>
    /\ hasChanges
    /\ ~isSaving
    /\ InFlight < MaxInFlight
    /\ isSaving' = TRUE
    /\ ops' = ops (+) One(NewOp("drawer", editState, drawerStyle[1]))
    /\ UNCHANGED <<rowVars, idleTimers, toasts, server, pushQ, drawerStyle, editState,
                   hasChanges, events, fetchResp, burst>>
    /\ UNCHANGED otherVars

\* the drawer's update succeeds: the 'Saved' toast, and handleSave continues
DrawerSaveSucceed(o) ==
    /\ o.phase = "applied"
    /\ o.kind = "drawer"
    /\ toasts' = TRUE
    /\ Refetch
    /\ isSaving' = FALSE
    /\ hasChanges' = FALSE
    /\ Render(style, localStyle, debouncedStyle, hasUnsavedChanges, saveStatus,
              debounceTimer, {"onUpdate"}, ops (-) One(o), burst)
    /\ SyncErrors(style, hasUnsavedChanges, {"onUpdate"}, errors, touched)
    /\ UNCHANGED <<idleTimers, server, pushQ, drawerStyle, editState, events>>
    /\ UNCHANGED otherVars

\* the drawer's update fails for good: the 'Failed to save' toast, and
\* handleSave continues
DrawerSaveFail(o) ==
    /\ o.phase = "req"
    /\ o.kind = "drawer"
    /\ toasts' = TRUE
    /\ Refetch
    /\ isSaving' = FALSE
    /\ Render(style, localStyle, debouncedStyle, hasUnsavedChanges, saveStatus,
              debounceTimer, {"onUpdate"}, ops (-) One(o), burst)
    /\ SyncErrors(style, hasUnsavedChanges, {"onUpdate"}, errors, touched)
    /\ UNCHANGED <<idleTimers, server, pushQ, drawerStyle, editState, hasChanges, events>>
    /\ UNCHANGED otherVars

\* the Dashboard has mounted: its list is empty, its fetch is on the way, it
\* is subscribed, and the store holds record 1
LstIdle ==
    [styles |-> <<>>, present |-> {1}, used |-> {1}, channel |-> <<>>,
     requests |-> 1, fetches |-> 1, responses |-> {}, deleting |-> {},
     deleted |-> {}]

\* no execution of withRetry is followed
WrIdle ==
    [pc |-> "idle", maxRetries |-> 0, delayMs |-> 0, attempt |-> 0, calls |-> 0,
     retries |-> <<>>, waits |-> <<>>, onlyNo4xx |-> TRUE,
     lastError |-> [status |-> 0, words |-> {}, isError |-> FALSE, id |-> -1],
     thrown |-> <<>>]

\* Records of the customer in the list, by id
MaxRecords == 2

AllRecords == [k \in 1 .. MaxRecords |-> k]

Range(q) == {q[k] : k \in 1 .. Len(q)}

\* the import dialog before a file is chosen
ImpIdle ==
    [pc |-> "idle", previewData |-> <<>>, i |-> 0, successCount |-> 0,
     errors |-> <<>>, importing |-> FALSE, importProgress |-> 0, error |-> <<>>,
     completed |-> FALSE, sent |-> <<>>, created |-> <<>>, transient |-> {},
     runs |-> 0, createdRows |-> <<>>]

\* no run of a bulk handler is followed
RunIdle ==
    [pc |-> "idle", ids |-> <<>>, successCount |-> 0, failCount |-> 0,
     requests |-> <<>>, failed |-> {}, toast |-> <<>>, mounted |-> TRUE]

\* the dashboard with the customer's records loaded and none selected
DelIdle ==
    [styles |-> AllRecords, selectedIds |-> <<>>, present |-> Range(AllRecords),
     bulk |-> RunIdle, clear |-> RunIdle]

\* Dashboard after its first render: the subscription effect has called
\* fetchStyles and subscribe, and the push channel works
SubIdle ==
    [up |-> TRUE, pending |-> 1, subscribed |-> FALSE, fetches |-> 1,
     loaded |-> FALSE, shown |-> 0, warnings |-> 0]

\* the list with the one record of the row, nothing derived yet
FmIdle == [styles |-> <<InitialStyle>>, by |-> "none", out |-> <<>>]

SyncInit ==
    /\ style = InitialStyle
    /\ localStyle = InitialStyle
    /\ debouncedStyle = InitialStyle
    /\ debounceTimer = <<InitialStyle>>
    /\ hasUnsavedChanges = FALSE
    /\ saveStatus = "idle"
    /\ previousStyleRef = InitialStyle
    /\ idleTimers = FALSE
    /\ ops = EmptyBag
    /\ toasts = FALSE
    /\ server = InitialStyle
    /\ pushQ = <<>>
    /\ drawerStyle = <<>>
    /\ editState = InitialStyle
    /\ hasChanges = FALSE
    /\ isSaving = FALSE
    /\ fetchResp = <<>>
    /\ errors = "none"
    /\ touched = FALSE
    /\ burst = <<>>
    /\ events = 0

Init ==
    /\ SyncInit
    /\ wr = WrIdle /\ imp = ImpIdle /\ del = DelIdle /\ mounted = TRUE /\ sub = SubIdle
    /\ fm = FmIdle
    /\ lst = LstIdle

Next ==
    \/ \E v \in RowInputs : HandleChange(v)
    \/ DebounceFire
    \/ PushDeliver
    \/ FetchDeliver
    \/ ToastExpire
    \/ IdleTimerFire
    \/ HandleBlur
    \/ \E o \in BagToSet(ops) : ServerApply(o)
    \/ \E v \in OtherClientInputs : OtherClientUpdate(v)
    \/ \E o \in BagToSet(ops) : SaveSucceed(o)
    \/ \E o \in BagToSet(ops) : SaveRetry(o)
    \/ \E o \in BagToSet(ops) : SaveFail(o)
    \/ OpenDrawer
    \/ \E v \in DrawerInputs : HandleFieldChange(v)
    \/ HandleSave
    \/ \E o \in BagToSet(ops) : DrawerSaveSucceed(o)
    \/ \E o \in BagToSet(ops) : DrawerSaveFail(o)

Spec == Init /\ [][Next]_vars

(***************************************************************************)
(* The row with a store that accepts every update, under fair scheduling:  *)
(* a timer that is armed fires, an event or answer on its way arrives, and *)
(* the store answers every request.  The user and other clients act when   *)
(* they like.                                                              *)
(***************************************************************************)
NextLive ==
    \/ \E v \in RowInputs : HandleChange(v)
    \/ DebounceFire
    \/ PushDeliver
    \/ FetchDeliver
    \/ ToastExpire
    \/ IdleTimerFire
    \/ \E o \in BagToSet(ops) : ServerApply(o)
    \/ \E v \in OtherClientInputs : OtherClientUpdate(v)
    \/ \E o \in BagToSet(ops) : SaveSucceed(o)

FairLive ==
    /\ WF_vars(DebounceFire)
    /\ WF_vars(PushDeliver)
    /\ WF_vars(FetchDeliver)
    /\ WF_vars(ToastExpire)
    /\ WF_vars(IdleTimerFire)
    /\ WF_vars(\E o \in BagToSet(ops) : ServerApply(o))
    /\ WF_vars(\E o \in BagToSet(ops) : SaveSucceed(o))

SpecLive == Init /\ [][NextLive]_vars /\ FairLive

(***************************************************************************)
(* The row leaves the view.                                                *)
(***************************************************************************)
\* useDebounce's effect cleanup: clearTimeout(handler)
UnmountTimer_Kept(timer) == timer

UnmountTimer(timer) == <<>>

\* React unmounts the DashboardRow (its record is filtered out or deleted, or
\* the Dashboard is left): the effects' cleanups run.  The auto-save effect
\* has none, and the timers that reset the save status are not cleared.
Unmount ==
    /\ mounted
    /\ mounted' = FALSE
    /\ debounceTimer' = UnmountTimer(debounceTimer)
    /\ UNCHANGED <<style, localStyle, debouncedStyle, hasUnsavedChanges,
                   saveStatus, previousStyleRef, idleTimers, ops, toasts, server,
                   pushQ, drawerVars, fetchResp, errors, touched, burst, events>>
    /\ UNCHANGED <<wr, imp, del, sub, fm, lst>>

NextUnmount ==
    \/ \E v \in RowInputs : HandleChange(v)
    \/ DebounceFire
    \/ PushDeliver
    \/ FetchDeliver
    \/ ToastExpire
    \/ IdleTimerFire
    \/ HandleBlur
    \/ \E o \in BagToSet(ops) : ServerApply(o)
    \/ \E v \in OtherClientInputs : OtherClientUpdate(v)
    \/ \E o \in BagToSet(ops) : SaveSucceed(o)
    \/ \E o \in BagToSet(ops) : SaveRetry(o)
    \/ \E o \in BagToSet(ops) : SaveFail(o)
    \/ Unmount

SpecUnmount == Init /\ [][NextUnmount]_vars

(***************************************************************************)
(* withRetry (src/src/utils/validation.ts): one execution, followed from   *)
(* the call to the return or the throw.  The operation's outcome at each   *)
(* attempt is chosen by the environment.                                   *)
(***************************************************************************)
\* the largest maxRetries argument
MaxAttempts == 4

\* the maxRetries arguments: values below 1 and the attempts up to the bound
RetryArgs == 0 .. MaxAttempts

\* the delayMs arguments: the default, and one that reaches the cap
DelayArgs == {1000, 20000}

MAX_BACKOFF_MS == 30000

\* the substrings of a lower-cased message that the message fallback looks for
TerminalWords == {"400", "401", "403", "404", "validation"}

\* The errors the operation rejects with: status is 0 when the error carries
\* none, words are the terminal words its message contains, isError is
\* whether it is an instance of Error, id is the attempt that raised it.
\* In turn: not found, rate limited, server error, network error ('Failed to
\* fetch'), a timeout ('timeout of 4000ms exceeded'), a server error whose
\* message mentions validation, and a rejected plain object with a message.
ErrorKinds ==
    {[status |-> 404, words |-> {}, isError |-> TRUE],
     [status |-> 429, words |-> {}, isError |-> TRUE],
     [status |-> 500, words |-> {}, isError |-> TRUE],
     [status |-> 0, words |-> {}, isError |-> TRUE],
     [status |-> 0, words |-> {"400"}, isError |-> TRUE],
     [status |-> 500, words |-> {"validation"}, isError |-> TRUE],
     [status |-> 0, words |-> {"404"}, isError |-> FALSE]}

\* the error that kind k raises at attempt n
Raise(k, n) ==
    [status |-> k.status, words |-> k.words, isError |-> k.isError, id |-> n]

\* new Error('maxRetries must be at least 1')
ConfigError == [status |-> 0, words |-> {}, isError |-> TRUE, id |-> 0]

\* the value of lastError before any attempt
Undefined == [status |-> 0, words |-> {}, isError |-> FALSE, id |-> -1]

\* err.status === 429
IsRateLimited(e) == e.status = 429

\* a bug that would leave 400..404 out of the client errors
IsClientError_Above404(e) == e.status # 0 /\ e.status > 404 /\ e.status < 500

\* err.status && err.status >= 400 && err.status < 500
IsClientError(e) == e.status # 0 /\ e.status >= 400 /\ e.status < 500

\* error instanceof Error and its message includes one of the terminal words
MessageIsTerminal(e) == e.isError /\ e.words \cap TerminalWords # {}

\* Math.pow(2, n)
RECURSIVE Pow2(_)
Pow2(n) == IF n <= 0 THEN 1 ELSE 2 * Pow2(n - 1)

\* Math.min(a, b)
MathMin(a, b) == IF a < b THEN a ELSE b

\* the wait after a rate-limited failure at this attempt
RetryDelay(delayMs, attempt) == delayMs * attempt * 2

\* a bug that would make the transient backoff linear
BackoffDelay_Linear(delayMs, attempt) == MathMin(delayMs * attempt, MAX_BACKOFF_MS)

\* the wait after a transient failure at this attempt
BackoffDelay(delayMs, attempt) == MathMin(delayMs * Pow2(attempt - 1), MAX_BACKOFF_MS)

\* a bug that would let maxRetries = 0 through the guard
ConfigInvalid_Negative(maxRetries) == maxRetries < 0

\* the guard on maxRetries
ConfigInvalid(maxRetries) == maxRetries < 1

\* a bug that would keep the first error instead of the last
LastError_First(prev, e) == IF prev.id = -1 THEN e ELSE prev

\* lastError = error
LastError(prev, e) == e

\* a bug that would report the number of the attempt to come
OnRetryArg_Next(attempt) == attempt + 1

\* the attempt number that onRetry(attempt, error) receives
OnRetryArg(attempt) == attempt

\* a bug that would allow one attempt more than maxRetries
AttemptsRemain_OneMore(attempt, maxRetries) == attempt <= maxRetries

\* attempt < maxRetries: another attempt follows a retryable failure
AttemptsRemain(attempt, maxRetries) == attempt < maxRetries

\* withRetry is called: the guard, and the loop's first test
WithRetryCall ==
    /\ wr.pc = "start"
    /\ wr' = IF ConfigInvalid(wr.maxRetries)
               THEN [wr EXCEPT !.pc = "threw", !.thrown = <<ConfigError>>]
             ELSE IF 1 <= wr.maxRetries
               THEN [wr EXCEPT !.pc = "call", !.attempt = 1]
             ELSE [wr EXCEPT !.pc = "threw", !.thrown = <<wr.lastError>>]
    /\ UNCHANGED <<syncVars, imp, del, mounted, sub, fm, lst>>

\* the operation is invoked and resolves: return await operation()
OperationResolves ==
    /\ wr.pc = "call"
    /\ wr' = [wr EXCEPT !.pc = "returned", !.calls = @ + 1]
    /\ UNCHANGED <<syncVars, imp, del, mounted, sub, fm, lst>>

\* the operation is invoked and rejects with an error of kind k: the catch
\* block up to the throw, or to the wait before the next attempt, or, when no
\* attempt remains, to the throw after the loop
OperationRejects(k) ==
    /\ wr.pc = "call"
    /\ LET e == Raise(k, wr.attempt)
           w == [wr EXCEPT !.calls = @ + 1, !.lastError = LastError(@, e),
                           !.onlyNo4xx = @ /\ ~IsClientError(e)]
       IN  wr' =
             IF IsRateLimited(e)
               THEN IF AttemptsRemain(wr.attempt, wr.maxRetries)
                      THEN [w EXCEPT !.pc = "wait",
                                     !.retries = Append(@, OnRetryArg(wr.attempt)),
                                     !.waits = Append(@, RetryDelay(wr.delayMs, wr.attempt))]
                      ELSE [w EXCEPT !.pc = "threw", !.thrown = <<e>>]
             ELSE IF IsClientError(e) \/ MessageIsTerminal(e)
               THEN [w EXCEPT !.pc = "threw", !.thrown = <<e>>]
             ELSE IF AttemptsRemain(wr.attempt, wr.maxRetries)
               THEN [w EXCEPT !.pc = "wait",
                              !.retries = Append(@, OnRetryArg(wr.attempt)),
                              !.waits = Append(@, BackoffDelay(wr.delayMs, wr.attempt))]
             ELSE [w EXCEPT !.pc = "threw", !.thrown = <<w.lastError>>]
    /\ UNCHANGED <<syncVars, imp, del, mounted, sub, fm, lst>>

\* the wait is over: attempt++, and the loop's test holds
WaitEnds ==
    /\ wr.pc = "wait"
    /\ wr' = [wr EXCEPT !.pc = "call", !.attempt = @ + 1]
    /\ UNCHANGED <<syncVars, imp, del, mounted, sub, fm, lst>>

InitRetry ==
    /\ SyncInit
    /\ \E m \in RetryArgs, d \in DelayArgs :
          wr = [WrIdle EXCEPT !.pc = "start", !.maxRetries = m, !.delayMs = d]
    /\ imp = ImpIdle
    /\ del = DelIdle
    /\ mounted = TRUE
    /\ sub = SubIdle
    /\ fm = FmIdle
    /\ lst = LstIdle

NextRetry ==
    \/ WithRetryCall
    \/ OperationResolves
    \/ \E k \in ErrorKinds : OperationRejects(k)
    \/ WaitEnds

SpecRetry == InitRetry /\ [][NextRetry]_vars

(***************************************************************************)
(* ImportData (src/unnamed/part_009): the rows of the parsed file are      *)
(* shown as a preview, and handleImport sends them to the store one after  *)
(* the other.  The store's answer to each create is chosen by the          *)
(* environment.  Rows are numbered from 1, as in the messages.             *)
(***************************************************************************)
\* the largest number of rows in the preview
MaxRows == 3

\* the largest number of times the Import button is used in one dialog
MaxImports == 2

\* rows as mapRowToSchema builds them: a complete row, a row whose units cell
\* is empty or not a number (parseNumber gives 0), and a row of a file that
\* has no Pack column (the default 0)
ImportRows ==
    {InitialStyle, [InitialStyle EXCEPT !.units = N(0)],
     [InitialStyle EXCEPT !.pack = N(0)]}

Previews == UNION {[1 .. n -> ImportRows] : n \in 1 .. MaxRows}

\* reader.onload: the rows that have a styleId become the preview
ProcessFile(p) ==
    /\ imp.pc \in {"idle", "preview"}
    /\ imp' = [imp EXCEPT !.pc = "preview", !.previewData = p, !.error = <<>>]
    /\ UNCHANGED <<syncVars, wr, del, mounted, sub, fm, lst>>

\* the end of the loop's body for row m.i: the progress, then either the create
\* of the next row or, after the last row, the code that follows the loop
RowDone(m) ==
    IF m.i < Len(m.previewData)
      THEN [m EXCEPT !.importProgress = m.i, !.i = m.i + 1,
                     !.sent = Append(@, m.i + 1)]
      ELSE [m EXCEPT !.importProgress = m.i, !.pc = "done", !.importing = FALSE,
                     !.error = IF Len(m.errors) > 0
                                 THEN <<[imported |-> m.successCount,
                                         total |-> Len(m.previewData),
                                         errors |-> m.errors]>>
                               ELSE <<>>,
                     !.completed = (Len(m.errors) = 0)]

\* the Import button: handleImport up to the first create.  The button is
\* there while the dialog is open with a preview: before the first import, and
\* again after an import that ended with errors (the dialog closes only when
\* no row failed).
HandleImport ==
    /\ imp.pc = "preview" \/ (imp.pc = "done" /\ ~imp.completed)
    /\ ~imp.importing
    /\ Len(imp.previewData) # 0
    /\ imp.runs < MaxImports
    /\ imp' = [imp EXCEPT !.pc = "create", !.importing = TRUE,
                          !.importProgress = 0, !.error = <<>>, !.i = 1,
                          !.successCount = 0, !.errors = <<>>, !.sent = <<1>>,
                          !.transient = {}, !.runs = @ + 1]
    /\ UNCHANGED <<syncVars, wr, del, mounted, sub, fm, lst>>

\* the store creates the record of row imp.i
CreateResolves ==
    /\ imp.pc = "create"
    /\ imp' = RowDone([imp EXCEPT !.successCount = @ + 1,
                                  !.created = Append(@, imp.previewData[imp.i]),
                                  !.createdRows = Append(@, imp.i)])
    /\ UNCHANGED <<syncVars, wr, del, mounted, sub, fm, lst>>

\* the create of row imp.i fails, with a transient error (network, 5xx) or
\* another one: the catch does not look at which
CreateRejects ==
    /\ imp.pc = "create"
    /\ \E tr \in BOOLEAN :
          imp' = RowDone([imp EXCEPT !.errors = Append(@, imp.i),
                                    !.transient = IF tr THEN @ \cup {imp.i} ELSE @])
    /\ UNCHANGED <<syncVars, wr, del, mounted, sub, fm, lst>>

NextImport ==
    \/ \E p \in Previews : ProcessFile(p)
    \/ HandleImport
    \/ CreateResolves
    \/ CreateRejects

SpecImport == Init /\ [][NextImport]_vars

(***************************************************************************)
(* Bulk delete (Dashboard.handleBulkDelete) and clear-all                  *)
(* (AppContent.handleClearAllStyles): one run of each is followed, and the *)
(* two may overlap.  The store's answer to each delete is chosen by the    *)
(* environment, except that deleting a record that is gone fails.          *)
(***************************************************************************)
\* a Set's has / delete / add, the selection kept in insertion order
Toggle(sel, id) ==
    IF id \in Range(sel) THEN SelectSeq(sel, LAMBDA x : x # id) ELSE Append(sel, id)

\* the records of the store as fetched
Fetched(present) == SelectSeq(AllRecords, LAMBDA x : x \in present)

\* a click on a row's checkbox, without the shift key
HandleRowSelect(id) ==
    /\ id \in Range(del.styles)
    /\ del' = [del EXCEPT !.selectedIds = Toggle(@, id)]
    /\ UNCHANGED <<syncVars, wr, imp, mounted, sub, fm, lst>>

\* the subscription's delete event of a record that is gone
DeleteEvent(id) ==
    /\ id \in Range(del.styles) \ del.present
    /\ del' = [del EXCEPT !.styles = SelectSeq(@, LAMBDA x : x # id)]
    /\ UNCHANGED <<syncVars, wr, imp, mounted, sub, fm, lst>>

\* fetchStyles' answer replaces the list
StylesFetched ==
    /\ del.styles # Fetched(del.present)
    /\ del' = [del EXCEPT !.styles = Fetched(del.present)]
    /\ UNCHANGED <<syncVars, wr, imp, mounted, sub, fm, lst>>

\* a handler's start, up to its first delete request
StartRun(ids) ==
    [RunIdle EXCEPT !.pc = "delete", !.ids = ids, !.requests = <<ids[1]>>]

\* the delete button of the selection bar, the dialog confirmed
HandleBulkDelete ==
    /\ del.bulk.pc # "delete"
    /\ Len(del.selectedIds) # 0
    /\ del' = [del EXCEPT !.bulk = StartRun(del.selectedIds)]
    /\ UNCHANGED <<syncVars, wr, imp, mounted, sub, fm, lst>>

\* the Clear All button, the dialog confirmed
HandleClearAllStyles ==
    /\ del.clear.pc # "delete"
    /\ Len(del.styles) > 0
    /\ del' = [del EXCEPT !.clear = StartRun(del.styles)]
    /\ UNCHANGED <<syncVars, wr, imp, mounted, sub, fm, lst>>

\* the counters after the delete of id: successCount++ in the try, failCount++
\* in the catch
Tally_SuccessOnly(r, id, ok) ==
    IF ok THEN [r EXCEPT !.successCount = @ + 1] ELSE [r EXCEPT !.failed = @ \cup {id}]

Tally(r, id, ok) ==
    IF ok THEN [r EXCEPT !.successCount = @ + 1]
    ELSE [r EXCEPT !.failCount = @ + 1, !.failed = @ \cup {id}]

\* the toast after the loop
Summary(r) ==
    IF r.failCount = 0 THEN <<"success", r.successCount>>
    ELSE <<"warning", r.successCount, r.failCount>>

\* the run after the answer to its pending request: the next request, or the
\* toast after the last one
Settle(r, ok) ==
    LET t == Tally(r, r.ids[Len(r.requests)], ok)
    IN  IF Len(r.requests) < Len(r.ids)
          THEN [t EXCEPT !.requests = Append(@, r.ids[Len(@) + 1])]
          ELSE [t EXCEPT !.pc = "done", !.toast = Summary(t)]

\* what follows the loop besides the toast: handleBulkDelete drops the selected
\* rows from the list and clears the selection (if its Dashboard is still
\* mounted); handleClearAllStyles remounts the Dashboard, which fetches
Finish(h, d) ==
    IF h = "bulk"
      THEN IF d.bulk.mounted
             THEN [d EXCEPT !.styles = SelectSeq(@, LAMBDA x : x \notin Range(d.bulk.ids)),
                            !.selectedIds = <<>>]
           ELSE d
      ELSE [d EXCEPT !.styles = Fetched(d.present), !.selectedIds = <<>>,
                     !.bulk.mounted = (d.bulk.pc # "delete")]

\* the store answers the pending delete request of handler h
DeleteSettles(h, ok) ==
    /\ del[h].pc = "delete"
    /\ LET id == del[h].ids[Len(del[h].requests)]
           r == Settle(del[h], ok)
           d == [del EXCEPT ![h] = r, !.present = IF ok THEN @ \ {id} ELSE @]
       IN  /\ ok => id \in del.present
           /\ del' = IF r.pc = "done" THEN Finish(h, d) ELSE d
    /\ UNCHANGED <<syncVars, wr, imp, mounted, sub, fm, lst>>

NextDelete ==
    \/ \E id \in Range(AllRecords) : HandleRowSelect(id)
    \/ \E id \in Range(AllRecords) : DeleteEvent(id)
    \/ StylesFetched
    \/ HandleBulkDelete
    \/ HandleClearAllStyles
    \/ \E h \in {"bulk", "clear"}, ok \in BOOLEAN : DeleteSettles(h, ok)

SpecDelete == Init /\ [][NextDelete]_vars

(***************************************************************************)
(* Dashboard's subscription effect (Dashboard.tsx 883-912), on             *)
(* [customerId, fetchStyles, toast].  toast is the ToastProvider's context *)
(* value, a new object whenever the list of toasts changes, so the effect  *)
(* runs again after every toast shown or removed.                          *)
(***************************************************************************)
\* the warnings followed during one outage of the push channel
MaxWarnings == 3

\* the effect runs again: the cleanup unsubscribes, then fetchStyles() and
\* subscribe() are called
EffectRuns(u) ==
    [u EXCEPT !.subscribed = FALSE, !.fetches = @ + 1, !.pending = @ + 1]

\* toast.warning: addToast changes the toasts, and with them the context value
ToastWarning(u) == EffectRuns([u EXCEPT !.shown = @ + 1, !.warnings = @ + 1])

\* the push channel is down from the first render on
ChannelDown ==
    /\ sub = SubIdle
    /\ sub' = [sub EXCEPT !.up = FALSE]
    /\ UNCHANGED <<syncVars, wr, imp, del, mounted, fm, lst>>

\* the push channel works again
ChannelRecovers ==
    /\ ~sub.up
    /\ sub' = [sub EXCEPT !.up = TRUE]
    /\ UNCHANGED <<syncVars, wr, imp, del, mounted, fm, lst>>

\* a subscribe() promise rejects: the catch shows the warning
SubscribeFails ==
    /\ sub.pending > 0
    /\ ~sub.up
    /\ sub.warnings < MaxWarnings
    /\ sub' = ToastWarning([sub EXCEPT !.pending = @ - 1])
    /\ UNCHANGED <<syncVars, wr, imp, del, mounted, fm, lst>>

\* a subscribe() promise resolves; the subscription stands when it is the one
\* of the latest run of the effect
SubscribeSucceeds ==
    /\ sub.pending > 0
    /\ sub.up
    /\ sub' = [sub EXCEPT !.pending = @ - 1, !.subscribed = (sub.pending = 1)]
    /\ UNCHANGED <<syncVars, wr, imp, del, mounted, fm, lst>>

\* fetchStyles' answer: setStyles(records), setLoading(false)
StylesLoaded ==
    /\ sub.fetches > 0
    /\ sub' = [sub EXCEPT !.fetches = @ - 1, !.loaded = TRUE]
    /\ UNCHANGED <<syncVars, wr, imp, del, mounted, fm, lst>>

\* a toast's removeTimer fires: removeToast changes the toasts
ToastRemoved ==
    /\ sub.shown > 0
    /\ sub' = EffectRuns([sub EXCEPT !.shown = @ - 1])
    /\ UNCHANGED <<syncVars, wr, imp, del, mounted, fm, lst>>

NextSubscribe ==
    \/ ChannelDown
    \/ ChannelRecovers
    \/ SubscribeFails
    \/ SubscribeSucceeds
    \/ StylesLoaded
    \/ ToastRemoved

SpecSubscribe == Init /\ [][NextSubscribe]_vars

(***************************************************************************)
(* Derived metrics.  A JavaScript number is modelled as an exact fraction  *)
(* <<numerator, denominator>> in lowest terms with a positive denominator, *)
(* and a result that is not a finite number (NaN, Infinity) as <<0, 0>>.   *)
(* The rounding errors of doubles are not modelled.                        *)
(***************************************************************************)
\* the largest number of records on display
MaxStyles == 2

NaN == <<0, 0>>

IsNaN(a) == a[2] = 0

Num(k) == <<k, 1>>

Abs(n) == IF n < 0 THEN 0 - n ELSE n

RECURSIVE GCD(_, _)
GCD(a, b) == IF b = 0 THEN a ELSE GCD(b, a % b)

Norm(r) == LET g == GCD(Abs(r[1]), r[2]) IN <<r[1] \div g, r[2] \div g>>

\* the number in a field of a record; reading a missing field gives undefined,
\* which arithmetic turns into NaN
Rat(v) == IF v = Absent THEN NaN ELSE Norm(<<2 * v[1] + v[2], 2>>)

QAdd(a, b) ==
    IF IsNaN(a) \/ IsNaN(b) THEN NaN
    ELSE Norm(<<a[1] * b[2] + b[1] * a[2], a[2] * b[2]>>)

QSub(a, b) ==
    IF IsNaN(a) \/ IsNaN(b) THEN NaN
    ELSE Norm(<<a[1] * b[2] - b[1] * a[2], a[2] * b[2]>>)

QMul(a, b) ==
    IF IsNaN(a) \/ IsNaN(b) THEN NaN ELSE Norm(<<a[1] * b[1], a[2] * b[2]>>)

QDiv(a, b) ==
    IF IsNaN(a) \/ IsNaN(b) \/ b[1] = 0 THEN NaN
    ELSE IF b[1] > 0 THEN Norm(<<a[1] * b[2], a[2] * b[1]>>)
    ELSE Norm(<<0 - a[1] * b[2], 0 - a[2] * b[1]>>)

\* a < b; every comparison with NaN is false
QLess(a, b) == ~IsNaN(a) /\ ~IsNaN(b) /\ a[1] * b[2] < b[1] * a[2]

\* a <= b
QLeq(a, b) == ~IsNaN(a) /\ ~IsNaN(b) /\ a[1] * b[2] <= b[1] * a[2]

\* value || dflt on a field: undefined, 0 and NaN are falsy
OrElse(v, dflt) == IF v = Absent \/ v = N(0) THEN dflt ELSE v

\* Math.round(value * 100) / 100
MathRound2(a) ==
    IF IsNaN(a) THEN NaN ELSE Norm(<<(200 * a[1] + a[2]) \div (2 * a[2]), 100>>)

\* value.toFixed(2), as the number the string denotes
ToFixed2(a) ==
    IF IsNaN(a) THEN NaN
    ELSE IF a[1] < 0
      THEN Norm(<<0 - ((200 * (0 - a[1]) + a[2]) \div (2 * a[2])), 100>>)
    ELSE Norm(<<(200 * a[1] + a[2]) \div (2 * a[2]), 100>>)

CURRENCY_DIVISOR == <<31, 5>>

MARGIN_THRESHOLDS == [LOW |-> 15, MEDIUM |-> 22]

(***************************************************************************)
(* The Formula Library (utils/marginCalculations, src/unnamed/part_006).   *)
(***************************************************************************)
CalculateLC(price, rate) == QDiv(QMul(price, rate), CURRENCY_DIVISOR)

CalculateMargin_Unguarded(revenue, cost) ==
    QMul(QDiv(QSub(revenue, cost), revenue), Num(100))

CalculateMargin(revenue, cost) ==
    IF QLeq(revenue, Num(0)) THEN Num(0)
    ELSE QMul(QDiv(QSub(revenue, cost), revenue), Num(100))

GetMarginStatus(margin) ==
    IF QLess(margin, Num(MARGIN_THRESHOLDS.LOW)) THEN "low"
    ELSE IF QLess(margin, Num(MARGIN_THRESHOLDS.MEDIUM)) THEN "medium"
    ELSE "high"

CalculateVal1(price) == QDiv(price, CURRENCY_DIVISOR)

CalculateVal2(val1, pack) ==
    IF QLeq(pack, Num(0)) THEN Num(0) ELSE QDiv(val1, pack)

CalculateTotalCost(lc, extraCost) == QAdd(lc, extraCost)

CalculateStyleMetrics(params) ==
    LET lc == CalculateLC(params.price, params.rate)
        totalCost == CalculateTotalCost(lc, params.extraCost)
        revenue == QMul(params.sellingPrice, params.units)
        totalExpenses == QMul(totalCost, params.units)
        profit == QSub(revenue, totalExpenses)
        margin == CalculateMargin(revenue, totalExpenses)
        val1 == CalculateVal1(params.price)
    IN  [lc |-> lc, totalCost |-> totalCost, revenue |-> revenue, profit |-> profit,
         margin |-> margin,
         profitPerPack |-> IF QLess(Num(0), params.units)
                             THEN QDiv(profit, params.units) ELSE Num(0),
         val1 |-> val1, val2 |-> CalculateVal2(val1, params.pack),
         marginStatus |-> GetMarginStatus(margin)]

\* the library called with the fields of a record as they are
Params(rec) == [f \in Fields |-> Rat(rec[f])]

(***************************************************************************)
(* The consumers.                                                          *)
(***************************************************************************)
\* the row display: useMarginCalculator (hooks/useMarginCalculator.ts)
UseMarginCalculator(rec) ==
    LET units == Rat(OrElse(rec.units, N(0)))
        pack == Rat(OrElse(rec.pack, N(1)))
        price == Rat(OrElse(rec.price, N(0)))
        rate == Rat(OrElse(rec.rate, N(0)))
        extraCost == Rat(OrElse(rec.extraCost, N(0)))
        sellingPrice == Rat(OrElse(rec.sellingPrice, N(0)))
        lc == QDiv(QMul(price, rate), <<31, 5>>)
        totalCost == QAdd(lc, extraCost)
        revenue == QMul(sellingPrice, units)
        totalExpenses == QMul(totalCost, units)
        profit == QSub(revenue, totalExpenses)
        marginAchieved == IF QLess(Num(0), revenue)
                            THEN QMul(QDiv(profit, revenue), Num(100)) ELSE Num(0)
        profitPerPack == IF QLess(Num(0), units) THEN QDiv(profit, units) ELSE Num(0)
        val1 == QDiv(price, <<31, 5>>)
        val2 == IF QLess(Num(0), pack) THEN QDiv(val1, pack) ELSE Num(0)
    IN  [lc |-> ToFixed2(lc), totalCost |-> ToFixed2(totalCost),
         revenue |-> ToFixed2(revenue), profit |-> ToFixed2(profit),
         margin |-> ToFixed2(marginAchieved),
         profitPerPack |-> ToFixed2(profitPerPack),
         val1 |-> ToFixed2(val1), val2 |-> ToFixed2(val2),
         marginStatus |-> IF QLess(marginAchieved, Num(15)) THEN "low"
                          ELSE IF QLess(marginAchieved, Num(22)) THEN "medium"
                          ELSE "high"]

\* the exporter: calculateStyleData (ExportData, src/unnamed/part_015)
CalculateStyleData(rec) ==
    LET units == Rat(OrElse(rec.units, N(0)))
        pack == Rat(OrElse(rec.pack, N(1)))
        price == Rat(OrElse(rec.price, N(0)))
        rate == Rat(OrElse(rec.rate, N(0)))
        extraCost == Rat(OrElse(rec.extraCost, N(0)))
        sellingPrice == Rat(OrElse(rec.sellingPrice, N(0)))
        lc == CalculateLC(price, rate)
        totalCost == CalculateTotalCost(lc, extraCost)
        revenue == QMul(sellingPrice, units)
        totalExpenses == QMul(totalCost, units)
        profit == QSub(revenue, totalExpenses)
        val1 == CalculateVal1(price)
    IN  [lc |-> lc, totalCost |-> totalCost, revenue |-> revenue, profit |-> profit,
         marginAchieved |-> CalculateMargin(revenue, totalExpenses),
         profitPerPack |-> IF QLess(Num(0), units) THEN QDiv(profit, units) ELSE Num(0),
         val1 |-> val1, val2 |-> CalculateVal2(val1, pack)]

\* the derived columns of buildExportRow in numeric mode
BuildExportRow(calc) ==
    [lc |-> MathRound2(calc.lc), totalCost |-> MathRound2(calc.totalCost),
     margin |-> MathRound2(calc.marginAchieved),
     revenue |-> MathRound2(calc.revenue), profit |-> MathRound2(calc.profit),
     profitPerPack |-> MathRound2(calc.profitPerPack),
     val1 |-> MathRound2(calc.val1), val2 |-> MathRound2(calc.val2)]

\* the table's sort key: getCalculatedValue (Dashboard.tsx), which reads the
\* fields as they are
GetCalculatedValue(rec, column) ==
    LET units == Rat(rec.units)
        pack == Rat(rec.pack)
        sellingPrice == Rat(rec.sellingPrice)
        lc == QMul(Rat(rec.price), Rat(rec.rate))
        totalCost == QAdd(lc, Rat(rec.extraCost))
        margin == IF QLess(Num(0), sellingPrice)
                    THEN QMul(QDiv(QSub(sellingPrice, totalCost), sellingPrice), Num(100))
                  ELSE Num(0)
        profit == QMul(QSub(sellingPrice, totalCost), units)
    IN  CASE column = "lc" -> lc
          [] column = "totalCost" -> totalCost
          [] column = "margin" -> margin
          [] column = "profit" -> profit
          [] column = "profitPerPack" ->
                IF QLess(Num(0), pack) THEN QDiv(profit, QDiv(units, pack)) ELSE Num(0)
          [] column = "val1" -> QMul(sellingPrice, units)
          [] column = "val2" -> QMul(totalCost, units)

\* the margin of the table's margin filter: Dashboard's calculateMargin
DashboardCalculateMargin(rec) ==
    LET sellingPrice == Rat(rec.sellingPrice)
        lc == QDiv(QMul(Rat(rec.price), Rat(rec.rate)), <<31, 5>>)
        totalCost == QAdd(lc, Rat(rec.extraCost))
    IN  IF QLess(Num(0), sellingPrice)
          THEN QMul(QDiv(QSub(sellingPrice, totalCost), sellingPrice), Num(100))
        ELSE Num(0)

Brackets == {"negative", "low", "medium", "good", "excellent"}

\* whether the margin filter keeps a record
MarginFilterKeeps(rec, marginFilter) ==
    LET margin == DashboardCalculateMargin(rec)
    IN  CASE marginFilter = "negative" -> QLess(margin, Num(0))
          [] marginFilter = "low" -> QLeq(Num(0), margin) /\ QLess(margin, Num(15))
          [] marginFilter = "medium" -> QLeq(Num(15), margin) /\ QLess(margin, Num(22))
          [] marginFilter = "good" -> QLeq(Num(22), margin) /\ QLess(margin, Num(30))
          [] marginFilter = "excellent" -> QLeq(Num(30), margin)

\* the aggregator's per-record metrics: Analytics' calculateStyleMetrics
AnalyticsCalculateStyleMetrics(rec) ==
    LET units == Rat(OrElse(rec.units, N(0)))
        metrics == CalculateStyleMetrics(
                     [units |-> units,
                      price |-> Rat(OrElse(rec.price, N(0))),
                      rate |-> Rat(OrElse(rec.rate, N(0))),
                      extraCost |-> Rat(OrElse(rec.extraCost, N(0))),
                      sellingPrice |-> Rat(OrElse(rec.sellingPrice, N(0))),
                      pack |-> Rat(OrElse(rec.pack, N(1)))])
    IN  [revenue |-> metrics.revenue, profit |-> metrics.profit,
         margin |-> metrics.margin, units |-> units]

\* the bracket the aggregator counts a margin in
Bracket_LowBelow10(margin) ==
    IF QLess(margin, Num(0)) THEN "negative"
    ELSE IF QLess(margin, Num(10)) THEN "low"
    ELSE IF QLess(margin, Num(MARGIN_THRESHOLDS.MEDIUM)) THEN "medium"
    ELSE IF QLess(margin, Num(30)) THEN "good"
    ELSE "excellent"

Bracket(margin) ==
    IF QLess(margin, Num(0)) THEN "negative"
    ELSE IF QLess(margin, Num(MARGIN_THRESHOLDS.LOW)) THEN "low"
    ELSE IF QLess(margin, Num(MARGIN_THRESHOLDS.MEDIUM)) THEN "medium"
    ELSE IF QLess(margin, Num(30)) THEN "good"
    ELSE "excellent"

\* total += value over the first k records, in the order of the list
RECURSIVE Total(_, _, _)
Total(metrics, field, k) ==
    IF k = 0 THEN Num(0) ELSE QAdd(Total(metrics, field, k - 1), metrics[k][field])

\* the weighted average margin
WeightedAvgMargin_Simple(metrics, totalRevenue, totalProfit) ==
    QDiv(Total(metrics, "margin", Len(metrics)), Num(Len(metrics)))

WeightedAvgMargin(metrics, totalRevenue, totalProfit) ==
    IF QLess(Num(0), totalRevenue)
      THEN QMul(QDiv(totalProfit, totalRevenue), Num(100))
    ELSE Num(0)

\* the aggregator: useAnalyticsData
UseAnalyticsData(styles) ==
    LET metrics == [k \in DOMAIN styles |-> AnalyticsCalculateStyleMetrics(styles[k])]
        n == Len(styles)
        totalRevenue == Total(metrics, "revenue", n)
        totalProfit == Total(metrics, "profit", n)
        marginBrackets ==
            [b \in Brackets |->
               Cardinality({k \in DOMAIN styles : Bracket(metrics[k].margin) = b})]
    IN  [totalRevenue |-> totalRevenue, totalProfit |-> totalProfit,
         weightedAvgMargin |-> WeightedAvgMargin(metrics, totalRevenue, totalProfit),
         totalUnits |-> Total(metrics, "units", n),
         belowTarget |-> marginBrackets["low"], atRisk |-> marginBrackets["medium"],
         marginBrackets |-> marginBrackets, totalItems |-> n]

(***************************************************************************)
(* The records on display, and one action per consumer deriving its        *)
(* values from them.                                                       *)
(***************************************************************************)
Style(units, pack, price, rate, extraCost, sellingPrice) ==
    [units |-> units, pack |-> pack, price |-> price, rate |-> rate,
     extraCost |-> extraCost, sellingPrice |-> sellingPrice]

\* 10 units at a selling price of 100 and a landed cost of 31 * 2 / 6.2 = 10
Priced(extraCost) == Style(N(10), N(2), N(31), N(2), extraCost, N(100))

\* margins of -10, 0, 10, 15, 20, 22, 25, 30 and 50 percent, records with a
\* zero or no value in a field, and one whose values need rounding
MetricRecords ==
    {Priced(e) : e \in {N(100), N(90), N(80), N(75), N(70), N(68), N(65), N(60), N(40)}}
      \cup {Style(N(0), N(2), N(31), N(2), N(40), N(100)),
            Style(N(10), N(2), N(31), N(2), N(40), N(0)),
            Style(N(10), N(0), N(31), N(2), N(40), N(100)),
            Style(N(10), Absent, N(31), N(2), N(40), N(100)),
            Style(N(90), N(2), N(31), N(2), N(80), N(100)),
            Style(N(10), N(2), N(0), N(2), N(40), N(100)),
            Style(N(10), N(2), N(31), N(0), N(40), N(100)),
            Style(N(10), N(3), NHalf(1), N(2), N(0), N(100))}

StyleLists ==
    UNION {[1 .. n -> MetricRecords] : n \in 1 .. MaxStyles}

InitMetrics ==
    /\ SyncInit
    /\ wr = WrIdle
    /\ imp = ImpIdle
    /\ del = DelIdle
    /\ mounted = TRUE
    /\ sub = SubIdle
    /\ fm \in {[styles |-> q, by |-> "none", out |-> <<>>] : q \in StyleLists}
    /\ lst = LstIdle

Derive(by, out) ==
    /\ fm.by = "none"
    /\ fm' = [fm EXCEPT !.by = by, !.out = out]
    /\ UNCHANGED <<syncVars, wr, imp, del, mounted, sub, lst>>

\* the library applied to each record
LibraryMetrics ==
    Derive("library",
           [k \in DOMAIN fm.styles |-> CalculateStyleMetrics(Params(fm.styles[k]))])

\* the table renders a row for each record
RowDisplay ==
    Derive("row", [k \in DOMAIN fm.styles |-> UseMarginCalculator(fm.styles[k])])

\* the numeric export
ExportRows ==
    Derive("export",
           [k \in DOMAIN fm.styles |-> BuildExportRow(CalculateStyleData(fm.styles[k]))])

SortColumns == {"lc", "totalCost", "margin", "profit", "profitPerPack", "val1", "val2"}

\* the sort keys of the table for a derived column
SortedStyles ==
    \E column \in SortColumns :
        Derive("sort",
               [column |-> column,
                keys |-> [k \in DOMAIN fm.styles |->
                            GetCalculatedValue(fm.styles[k], column)]])

\* the records the table keeps under a margin filter
FilteredStyles ==
    \E marginFilter \in Brackets :
        Derive("filter",
               [marginFilter |-> marginFilter,
                kept |-> {k \in DOMAIN fm.styles :
                            MarginFilterKeeps(fm.styles[k], marginFilter)}])

\* the analytics panel
Analytics == Derive("analytics", UseAnalyticsData(fm.styles))

NextMetrics ==
    \/ LibraryMetrics
    \/ RowDisplay
    \/ ExportRows
    \/ SortedStyles
    \/ FilteredStyles
    \/ Analytics

SpecMetrics == InitMetrics /\ [][NextMetrics]_vars

(***************************************************************************)
(* Dashboard's record list (Dashboard.tsx: fetchStyles, the subscription   *)
(* callback, handleDelete).  Records are ids; the store creates each id    *)
(* once.  Push events travel in order on one channel; fetch answers and    *)
(* delete answers arrive whenever the environment delivers them.           *)
(***************************************************************************)
\* the largest record id
MaxListIds == 3

\* the largest number of fetches the effect starts
MaxFetches == 2

\* the largest number of push events on the way
MaxChannel == 2

ListIds == 1 .. MaxListIds

\* getFullList's answer: the records of the store in the order of the sort
RECURSIVE FullList(_, _)
FullList(present, k) ==
    IF k > MaxListIds THEN <<>>
    ELSE IF k \in present THEN <<k>> \o FullList(present, k + 1)
    ELSE FullList(present, k + 1)

\* setStyles(prev => [e.record, ...prev])
OnCreate(styles, id) == <<id>> \o styles

\* setStyles(prev => prev.map(s => s.id === e.record.id ? e.record : s))
OnUpdate(styles, id) == [k \in DOMAIN styles |-> IF styles[k] = id THEN id ELSE styles[k]]

\* setStyles(prev => prev.filter(s => s.id !== id))
OnDelete(styles, id) == SelectSeq(styles, LAMBDA x : x # id)

\* the store sends an event to the subscribers
Publish(action, id) == Append(lst.channel, [action |-> action, id |-> id])

\* a client (this one through AddEntry or the import, or another one) creates
\* a record; the store publishes the event
RecordCreated(id) ==
    /\ id \in ListIds \ lst.used
    /\ Len(lst.channel) < MaxChannel
    /\ lst' = [lst EXCEPT !.present = @ \cup {id}, !.used = @ \cup {id},
                          !.channel = Publish("create", id)]
    /\ UNCHANGED <<syncVars, wr, imp, del, mounted, sub, fm>>

\* a client updates a record; the store publishes the event
RecordUpdated(id) ==
    /\ id \in lst.present
    /\ Len(lst.channel) < MaxChannel
    /\ lst' = [lst EXCEPT !.channel = Publish("update", id)]
    /\ UNCHANGED <<syncVars, wr, imp, del, mounted, sub, fm>>

\* another client deletes a record; the store publishes the event
RecordDeleted(id) ==
    /\ id \in lst.present
    /\ Len(lst.channel) < MaxChannel
    /\ lst' = [lst EXCEPT !.present = @ \ {id}, !.channel = Publish("delete", id)]
    /\ UNCHANGED <<syncVars, wr, imp, del, mounted, sub, fm>>

\* the effect runs again (its dependencies changed) and calls fetchStyles
EffectFetches ==
    /\ lst.fetches < MaxFetches
    /\ lst' = [lst EXCEPT !.requests = @ + 1, !.fetches = @ + 1]
    /\ UNCHANGED <<syncVars, wr, imp, del, mounted, sub, fm>>

\* the store answers a getFullList request
FetchServed ==
    /\ lst.requests > 0
    /\ lst' = [lst EXCEPT !.requests = @ - 1,
                          !.responses = @ \cup {FullList(lst.present, 1)}]
    /\ UNCHANGED <<syncVars, wr, imp, del, mounted, sub, fm>>

\* fetchStyles: the answer arrives, setStyles(records)
FetchStylesResolves ==
    /\ \E records \in lst.responses :
          lst' = [lst EXCEPT !.styles = records, !.responses = @ \ {records}]
    /\ UNCHANGED <<syncVars, wr, imp, del, mounted, sub, fm>>

\* the subscription callback receives the next event
SubscriptionEvent ==
    /\ lst.channel # <<>>
    /\ LET e == Head(lst.channel)
       IN  lst' = [lst EXCEPT !.channel = Tail(@),
                              !.styles = CASE e.action = "update" -> OnUpdate(@, e.id)
                                           [] e.action = "create" -> OnCreate(@, e.id)
                                           [] e.action = "delete" -> OnDelete(@, e.id)]
    /\ UNCHANGED <<syncVars, wr, imp, del, mounted, sub, fm>>

\* the delete button of a row: handleDelete up to the request
HandleDelete(id) ==
    /\ id \in Range(lst.styles)
    /\ id \notin lst.deleting \cup lst.deleted
    /\ lst' = [lst EXCEPT !.deleting = @ \cup {id}]
    /\ UNCHANGED <<syncVars, wr, imp, del, mounted, sub, fm>>

\* the store deletes the record and publishes the event
DeleteServed(id) ==
    /\ id \in lst.deleting
    /\ id \in lst.present
    /\ Len(lst.channel) < MaxChannel
    /\ lst' = [lst EXCEPT !.deleting = @ \ {id}, !.deleted = @ \cup {id},
                          !.present = @ \ {id}, !.channel = Publish("delete", id)]
    /\ UNCHANGED <<syncVars, wr, imp, del, mounted, sub, fm>>

\* handleDelete after the await: the row is dropped from the list
HandleDeleteResolves(id) ==
    /\ id \in lst.deleted
    /\ lst' = [lst EXCEPT !.deleted = @ \ {id}, !.styles = OnDelete(@, id)]
    /\ UNCHANGED <<syncVars, wr, imp, del, mounted, sub, fm>>

\* handleDelete's catch: the request failed for good, the list is left alone
HandleDeleteRejects(id) ==
    /\ id \in lst.deleting
    /\ lst' = [lst EXCEPT !.deleting = @ \ {id}]
    /\ UNCHANGED <<syncVars, wr, imp, del, mounted, sub, fm>>

NextList ==
    \/ \E id \in ListIds : RecordCreated(id)
    \/ \E id \in ListIds : RecordUpdated(id)
    \/ \E id \in ListIds : RecordDeleted(id)
    \/ EffectFetches
    \/ FetchServed
    \/ FetchStylesResolves
    \/ SubscriptionEvent
    \/ \E id \in ListIds : HandleDelete(id)
    \/ \E id \in ListIds : DeleteServed(id)
    \/ \E id \in ListIds : HandleDeleteResolves(id)
    \/ \E id \in ListIds : HandleDeleteRejects(id)

SpecList == Init /\ [][NextList]_vars

(***************************************************************************)
(* The claims.                                                             *)
(***************************************************************************)
\* the operations that a step starts: the onUpdate calls of the row that are
\* in flight after the step and were not before it
StartedRowOps ==
    {o \in BagToSet(ops') :
        /\ o.kind = "row" /\ o.phase = "req" /\ o.attempt = 1
        /\ CopiesIn(o, ops') > CopiesIn(o, ops)}

\* C1: debounce coalescing: when a burst of edits settles, no persist call of
\* the row was issued while the burst was going on, the settle issues no call
\* that carries another value than the last edit's, and it issues one when the
\* settled snapshot is valid and differs from the last-confirmed one.
C1_OnePersistPerBurst ==
    [][(DebounceFire /\ burst # <<>>)
          => /\ burst[1] = 0
             /\ \A o \in StartedRowOps : o.data = localStyle
             /\ (localStyle # style /\ ValidateStyleDataIsValid(localStyle))
                    => StartedRowOps # {}]_vars

\* C2: saves of one record are serialized: in every reachable state at most
\* one persist operation of the record is in flight.
C2_SavesSerialized == InFlight <= 1

\* C3: every update request sent to the store for the record carries a
\* snapshot that the record validator accepts on all six numeric fields.
C3_OnlyValidSnapshotsSent ==
    \A o \in BagToSet(ops) : ValidateStyleDataIsValid(o.data)

\* C4: every persist call issued for the row carries the row's local snapshot
\* as it is when the call is issued, never a superseded or pre-edit one.
C4_PersistCarriesLocalSnapshot ==
    [][\A o \in StartedRowOps : o.data = localStyle']_vars

\* C5: an edit made while a save is in flight is not lost: when the older save
\* completes successfully and the local snapshot is no longer the one it
\* carried, the dirty flag stays set.
C5_EditDuringSaveKeepsDirty ==
    [][\A o \in BagToSet(ops) :
          (SaveSucceed(o) /\ hasUnsavedChanges /\ localStyle # o.data)
              => hasUnsavedChanges']_vars

\* C6: dirty-wins reconciliation: a push delivered while the status is pending
\* or saving leaves the local snapshot unchanged, and a push delivered while
\* the status is idle is applied to the local snapshot.
C6_DirtyWinsReconciliation ==
    [][PushDeliver =>
          /\ saveStatus \in {"pending", "saving"} => localStyle' = localStyle
          /\ saveStatus = "idle" => localStyle' = Head(pushQ)]_vars

\* C7: revert on failure: when a persist of the row fails, the local snapshot
\* afterwards equals the last-confirmed snapshot of that moment (pushes that
\* arrived during the save included), the dirty flag is cleared and the status
\* is error.
C7_RevertToLastConfirmed ==
    [][\A o \in BagToSet(ops) :
          SaveFail(o) => /\ localStyle' = style'
                         /\ localStyle' = previousStyleRef'
                         /\ ~hasUnsavedChanges'
                         /\ saveStatus' = "error"]_vars

\* C8: confirm on success: when a persist of the row succeeds, the
\* last-confirmed snapshot becomes the persisted value, the dirty flag is
\* cleared and the status is success.
C8_ConfirmOnSuccess ==
    [][\A o \in BagToSet(ops) :
          SaveSucceed(o) => /\ style' = o.data
                            /\ previousStyleRef' = o.data
                            /\ ~hasUnsavedChanges'
                            /\ saveStatus' = "success"]_vars

\* C9: when the debounce settles on an unsaved local snapshot that fails
\* validation, the status becomes error, no request is sent, the dirty flag
\* stays set and the local snapshot is left as it is.
C9_InvalidSettleGoesToError ==
    [][(/\ DebounceFire
        /\ hasUnsavedChanges
        /\ localStyle # style
        /\ ~ValidateStyleDataIsValid(localStyle))
           => /\ saveStatus' = "error"
              /\ ops' = ops
              /\ hasUnsavedChanges'
              /\ localStyle' = localStyle]_vars

\* the moves of the save status that the state machine allows
AllowedMoves ==
    {<<"idle", "pending">>, <<"pending", "saving">>, <<"saving", "success">>,
     <<"success", "idle">>, <<"saving", "error">>, <<"error", "idle">>,
     <<"pending", "error">>}

\* C10: the save status moves only along the allowed moves.  A local edit moves
\* it to pending, from where the same event's auto-save effect may take it on
\* to saving or error; it never becomes idle from pending or saving, and it
\* becomes success only at a completed persist.
C10_StatusMoves ==
    [][/\ (\E v \in RowInputs : HandleChange(v))
            => saveStatus' \in {"pending", "saving", "error"}
       /\ ~(\E v \in RowInputs : HandleChange(v))
            => \/ saveStatus' = saveStatus
               \/ <<saveStatus, saveStatus'>> \in AllowedMoves
       /\ (saveStatus' = "success" /\ saveStatus # "success")
            => \E o \in BagToSet(ops) : SaveSucceed(o)]_vars

\* C11: when a push is delivered while the row is not dirty, the local and the
\* last-confirmed snapshot both become the pushed value, no field error
\* message is left and the save status is unchanged.
C11_PushWhenNotDirty ==
    [][(PushDeliver /\ ~hasUnsavedChanges)
          => /\ localStyle' = Head(pushQ)
             /\ style' = Head(pushQ)
             /\ errors' # "message"
             /\ saveStatus' = saveStatus]_vars

\* the error kinds that carry a client-error status other than 429
ClientErrorKinds == {k \in ErrorKinds : k.status \in 400 .. 499 /\ k.status # 429}

\* the plain transient error kinds: no status or a 5xx one, and a message
\* without terminal words
PlainTransientKinds == {k \in ErrorKinds : k.status \in {0, 500} /\ k.words = {}}

\* the error kinds that carry no client-error status
NoClientStatusKinds == {k \in ErrorKinds : k.status \notin 400 .. 499}

\* C12: when the operation fails with a client error other than 429, that
\* same error is rethrown at once, onRetry is not called for it and the
\* operation is not invoked again: one invocation in all when it is the first.
C12_TerminalErrorNotRetried ==
    [][\A k \in ClientErrorKinds :
          OperationRejects(k)
              => /\ wr'.pc = "threw"
                 /\ wr'.thrown = <<Raise(k, wr.attempt)>>
                 /\ wr'.retries = wr.retries
                 /\ wr'.calls = wr.calls + 1
                 /\ (wr.attempt = 1 => wr'.calls = 1)]_vars

\* C12's case: a 404 at the first attempt has been rethrown
C12_Witness ==
    /\ wr.pc = "threw"
    /\ wr.thrown # <<>>
    /\ wr.thrown[1].status = 404
    /\ wr.thrown[1].id = 1
    /\ wr.calls = 1
    /\ wr.maxRetries > 1

\* C13: whenever the operation is about to be invoked for attempt n, onRetry
\* has been called exactly n - 1 times, with 1, 2, ..., n - 1 in this order;
\* so after k failures and a success it has been called with 1, ..., k, and
\* the success is returned within maxRetries attempts.
C13_OnRetryBeforeEachRetry ==
    /\ wr.pc = "call"
          => /\ wr.retries = [i \in 1 .. (wr.attempt - 1) |-> i]
             /\ wr.calls = wr.attempt - 1
    /\ wr.pc = "returned"
          => /\ wr.retries = [i \in 1 .. (wr.calls - 1) |-> i]
             /\ wr.calls <= wr.maxRetries
             /\ wr.thrown = <<>>

\* C13's case: three rate-limited failures, then success at the fourth attempt
C13_Witness ==
    /\ wr.pc = "returned"
    /\ wr.calls = 4
    /\ wr.delayMs = 1000
    /\ wr.waits = <<2000, 4000, 6000>>
    /\ wr.retries = <<1, 2, 3>>

\* C14: when every attempt fails with an error that carries no 4xx status,
\* whatever its message, the operation is invoked maxRetries times before
\* withRetry throws.
C14_Non4xxIsTransient ==
    (wr.pc = "threw" /\ wr.maxRetries >= 1 /\ wr.onlyNo4xx)
        => wr.calls = wr.maxRetries

\* C15: the wait after a rate-limited failure at attempt n < maxRetries is
\* double the wait of the transient backoff rule for the same attempt.
C15_RateLimitWaitIsDouble ==
    [][\A k \in ErrorKinds :
          (OperationRejects(k) /\ k.status = 429 /\ wr.attempt < wr.maxRetries)
              => /\ Len(wr'.waits) = Len(wr.waits) + 1
                 /\ wr'.waits[Len(wr'.waits)] =
                       2 * (IF wr.delayMs * 2 ^ (wr.attempt - 1) < 30000
                              THEN wr.delayMs * 2 ^ (wr.attempt - 1) ELSE 30000)]_vars

\* C16: after a transient failure at attempt n < maxRetries the wait before
\* attempt n + 1 is min(delayMs * 2^(n-1), 30000); after a failure at attempt
\* maxRetries there is no wait and no retry.
C16_TransientBackoff ==
    [][\A k \in NoClientStatusKinds :
          OperationRejects(k)
              => IF wr.attempt < wr.maxRetries
                   THEN /\ k \in PlainTransientKinds => wr'.pc = "wait"
                        /\ wr'.pc = "wait" =>
                             wr'.waits =
                               Append(wr.waits,
                                      IF wr.delayMs * 2 ^ (wr.attempt - 1) < 30000
                                        THEN wr.delayMs * 2 ^ (wr.attempt - 1)
                                        ELSE 30000)
                   ELSE /\ wr'.pc = "threw"
                        /\ wr'.waits = wr.waits
                        /\ wr'.retries = wr.retries]_vars

\* C16's case: transient failures up to the last attempt, with waits below
\* and at the cap
C16_Witness ==
    /\ wr.pc = "threw"
    /\ wr.calls = 4
    /\ wr.maxRetries = 4
    /\ wr.waits = <<20000, 30000, 30000>>

\* C17: called with maxRetries < 1, withRetry throws the configuration error
\* without invoking the operation or onRetry.
C17_ConfigErrorBelowOne ==
    (wr.pc \notin {"idle", "start"} /\ wr.maxRetries < 1)
        => /\ wr.pc = "threw"
           /\ wr.thrown = <<ConfigError>>
           /\ wr.calls = 0
           /\ wr.retries = <<>>

\* C17's case: withRetry(operation, 0) has thrown
C17_Witness == wr.pc = "threw" /\ wr.maxRetries = 0

\* C18: when the last of maxRetries attempts fails with a retryable error
\* (transient or 429), the error rethrown is the error of that last attempt.
C18_LastErrorRethrown ==
    [][\A k \in ErrorKinds \ ClientErrorKinds :
          (OperationRejects(k) /\ wr.attempt = wr.maxRetries)
              => /\ wr'.pc = "threw"
                 /\ wr'.thrown = <<Raise(k, wr.attempt)>>
                 /\ wr'.calls = wr.maxRetries]_vars

\* C18's case: three attempts failed, the last one with a server error after
\* a rate-limited one
C18_Witness ==
    /\ wr.pc = "threw"
    /\ wr.maxRetries = 3
    /\ wr.calls = 3
    /\ wr.thrown # <<>>
    /\ wr.thrown[1].status = 500
    /\ wr.thrown[1].id = 3
    /\ wr.waits = <<2000, 2000>>

\* the rows of the preview that fail validateStyleData
InvalidRows == {j \in 1 .. Len(imp.previewData) :
                   ~ValidateStyleDataIsValid(imp.previewData[j])}

\* C19: when an import of N rows of which exactly one, row i, fails validation
\* has ended (the store having refused no valid row), the store holds the other
\* N-1 rows, exactly one error is reported, every row after row i was processed
\* and row i itself was not sent to the store
C19_PartialImport ==
    (/\ imp.pc = "done"
     /\ Cardinality(InvalidRows) = 1
     /\ Range(imp.errors) \subseteq InvalidRows)
    => LET bad == CHOOSE j \in InvalidRows : TRUE
           n == Len(imp.previewData)
       IN  /\ imp.created = [k \in 1 .. n - 1 |->
                               imp.previewData[IF k < bad THEN k ELSE k + 1]]
           /\ imp.error # <<>> /\ Len(imp.error[1].errors) = 1
           /\ \A j \in bad + 1 .. n : j \in Range(imp.sent)
           /\ bad \notin Range(imp.sent)

\* the runs of the two bulk handlers
Runs == {del.bulk, del.clear}

C21_StoreCallsRetried ==
    \A j \in imp.transient :
        Cardinality({k \in 1 .. Len(imp.sent) : imp.sent[k] = j}) >= 2

\* C22: when the row unmounts its pending debounce timer is cancelled, and
\* while the row is unmounted no timer is pending and no step starts a persist
\* call of the row
C22_UnmountCancelsDebounce ==
    [][/\ ~mounted' => debounceTimer' = <<>>
       /\ ~mounted => StartedRowOps = {}]_vars

\* the row was unmounted with an edit waiting for the debounce and a persist in
\* flight, and the persist has completed: the store holds its snapshot
C22_Witness ==
    /\ ~mounted
    /\ hasUnsavedChanges
    /\ localStyle # debouncedStyle
    /\ saveStatus = "saving"
    /\ ops = EmptyBag
    /\ server = debouncedStyle
    /\ server # InitialStyle

\* C23: when subscribing to the push channel fails, the records are still
\* loaded (a fetch is under way or has answered) and the 'Real-time updates
\* unavailable' warning is surfaced once for the outage, not repeatedly
C23_OneWarningPerFailure ==
    /\ sub.warnings <= 1
    /\ sub.warnings >= 1 => (sub.loaded \/ sub.fetches > 0)

\* the Formula Library's values for a record
LibraryOn(rec) == CalculateStyleMetrics(Params(rec))

\* whether a margin lies in one of the five brackets
MarginIn(margin, b) ==
    CASE b = "negative" -> QLess(margin, Num(0))
      [] b = "low" -> QLeq(Num(0), margin) /\ QLess(margin, Num(15))
      [] b = "medium" -> QLeq(Num(15), margin) /\ QLess(margin, Num(22))
      [] b = "good" -> QLeq(Num(22), margin) /\ QLess(margin, Num(30))
      [] b = "excellent" -> QLeq(Num(30), margin)

\* C24: every place that derives the margin percentage of a record yields the
\* Formula Library's margin for that record: the row display and the export
\* (to two decimals), the table's sort key for the margin column, the margin
\* filter (it keeps the record under the bracket the library's margin lies in)
\* and the aggregator (it counts the record in that bracket)
C24_SingleFormula ==
    /\ \A k \in DOMAIN fm.styles :
         LET margin == LibraryOn(fm.styles[k]).margin
         IN  /\ fm.by = "row" => fm.out[k].margin = ToFixed2(margin)
             /\ fm.by = "export" => fm.out[k].margin = MathRound2(margin)
             /\ (fm.by = "sort" /\ fm.out.column = "margin")
                  => fm.out.keys[k] = margin
             /\ fm.by = "filter"
                  => (k \in fm.out.kept <=> MarginIn(margin, fm.out.marginFilter))
    /\ fm.by = "analytics" =>
         \A b \in Brackets :
             fm.out.marginBrackets[b]
               = Cardinality({k \in DOMAIN fm.styles :
                                MarginIn(LibraryOn(fm.styles[k]).margin, b)})

\* the derived numbers every consumer shows
DerivedNumbers ==
    {"lc", "totalCost", "revenue", "profit", "margin", "profitPerPack", "val1", "val2"}

\* C25: a 0 present in a field of a record is used as 0: the row display and
\* the export derive from such a record the values the Formula Library derives
\* from it (to two decimals), and in particular val2 = 0 when pack is 0
C25_ZeroIsNotMissing ==
    \A k \in DOMAIN fm.styles :
        LET rec == fm.styles[k]
            lib == LibraryOn(rec)
        IN  ((\A f \in Fields : rec[f] # Absent) /\ (\E f \in Fields : rec[f] = N(0)))
              => /\ fm.by = "row" =>
                      /\ \A d \in DerivedNumbers : fm.out[k][d] = ToFixed2(lib[d])
                      /\ rec.pack = N(0) => fm.out[k].val2 = Num(0)
                 /\ fm.by = "export" =>
                      /\ \A d \in DerivedNumbers : fm.out[k][d] = MathRound2(lib[d])
                      /\ rec.pack = N(0) => fm.out[k].val2 = Num(0)

\* records whose fields are all present (and non-negative)
Complete(rec) == \A f \in Fields : rec[f] # Absent

\* C26: for a record with every field present, the Formula Library's margin is
\* exactly 0 when units or sellingPrice is 0, its profit per unit is exactly 0
\* when units is 0, and none of its derived numbers is undefined
C26_DivideByZeroGuards ==
    fm.by = "library" =>
        \A k \in DOMAIN fm.styles :
            LET rec == fm.styles[k]
            IN  Complete(rec) =>
                  /\ (rec.units = N(0) \/ rec.sellingPrice = N(0))
                        => fm.out[k].margin = Num(0)
                  /\ rec.units = N(0) => fm.out[k].profitPerPack = Num(0)
                  /\ \A d \in DerivedNumbers : ~IsNaN(fm.out[k][d])

\* the library has derived the metrics of a record without units and of one
\* without a selling price
C26_Witness ==
    /\ fm.by = "library"
    /\ \E k \in DOMAIN fm.styles :
           /\ Complete(fm.styles[k])
           /\ fm.styles[k].units = N(0)
           /\ fm.out[k].margin = Num(0)
           /\ fm.out[k].profitPerPack = Num(0)
    /\ \E k \in DOMAIN fm.styles :
           /\ Complete(fm.styles[k])
           /\ fm.styles[k].sellingPrice = N(0)
           /\ fm.out[k].margin = Num(0)

\* the sum of a derived number of the library over the records from the k-th
\* on, added up from the last record to the first
RECURSIVE LibrarySum(_, _, _)
LibrarySum(styles, d, k) ==
    IF k > Len(styles) THEN Num(0)
    ELSE QAdd(LibraryOn(styles[k])[d], LibrarySum(styles, d, k + 1))

Reverse(q) == [k \in 1 .. Len(q) |-> q[Len(q) + 1 - k]]

\* revenue 1000 and profit 500
RecordA == Style(N(10), N(2), N(31), N(2), N(40), N(100))

\* revenue 9000 and profit 900
RecordB == Style(N(90), N(2), N(31), N(2), N(80), N(100))

\* C27: the aggregator's weighted average margin is 100 * (sum of the records'
\* profit) / (sum of the records' revenue) when the total revenue is positive
\* and 0 otherwise; it is the same for the records in the opposite order, and
\* it is 14 for the records A and B
C27_WeightedAverageMargin ==
    fm.by = "analytics" =>
        LET revenue == LibrarySum(fm.styles, "revenue", 1)
            profit == LibrarySum(fm.styles, "profit", 1)
        IN  /\ fm.out.weightedAvgMargin
                 = IF QLess(Num(0), revenue)
                     THEN QDiv(QMul(Num(100), profit), revenue)
                   ELSE Num(0)
            /\ UseAnalyticsData(Reverse(fm.styles)).weightedAvgMargin
                 = fm.out.weightedAvgMargin
            /\ fm.styles \in {<<RecordA, RecordB>>, <<RecordB, RecordA>>}
                 => fm.out.weightedAvgMargin = Num(14)

\* the aggregator has summarised the records A and B
C27_Witness ==
    /\ fm.by = "analytics"
    /\ fm.styles = <<RecordA, RecordB>>
    /\ fm.out.totalRevenue = Num(10000)
    /\ fm.out.totalProfit = Num(1400)
    /\ fm.out.weightedAvgMargin = Num(14)

\* C28: the aggregator counts every record in exactly one of its five
\* brackets, and that bracket agrees with the record's marginStatus: negative
\* or low for the status low, medium for medium, good or excellent for high
C28_BracketsMatchStatus ==
    fm.by = "analytics" =>
        LET WithStatus(s) ==
                Cardinality({k \in DOMAIN fm.styles :
                               LibraryOn(fm.styles[k]).marginStatus = s})
            counted == fm.out.marginBrackets
        IN  /\ counted["negative"] + counted["low"] + counted["medium"]
                 + counted["good"] + counted["excellent"] = Len(fm.styles)
            /\ counted["negative"] + counted["low"] = WithStatus("low")
            /\ counted["medium"] = WithStatus("medium")
            /\ counted["good"] + counted["excellent"] = WithStatus("high")

\* the aggregator has counted a record whose margin is exactly 15 percent and
\* one whose margin is exactly 22 percent
C28_Witness ==
    /\ fm.by = "analytics"
    /\ fm.styles = <<Priced(N(75)), Priced(N(68))>>
    /\ LibraryOn(fm.styles[1]).margin = Num(15)
    /\ LibraryOn(fm.styles[2]).margin = Num(22)
    /\ fm.out.marginBrackets["medium"] = 1
    /\ fm.out.marginBrackets["good"] = 1

\* C29: a persist call of the row is started only by the step in which the
\* debounce timer settles: no keystroke, push, refetch, retry notification or
\* toast change starts one by itself
C29_PersistOnlyOnSettle ==
    [][StartedRowOps # {} => DebounceFire]_vars

\* C30: the snapshot a persist call of the row carries is the one the row's
\* validation gate was evaluated on: it passes that gate
C30_GateChecksSentSnapshot ==
    [][\A o \in StartedRowOps : ~HasValidationErrors(o.data)]_vars

\* C38: the aggregator's belowTarget count is the number of records whose
\* margin is below the LOW threshold, that is, whose marginStatus is low,
\* records with a negative margin included
C38_BelowTargetCountsLow ==
    fm.by = "analytics" =>
        fm.out.belowTarget
          = Cardinality({k \in DOMAIN fm.styles :
                           LibraryOn(fm.styles[k]).marginStatus = "low"})

\* C36: called with maxRetries >= 1, withRetry never invokes the operation
\* more than maxRetries times, invokes nothing more once it has returned or
\* thrown, and has then invoked the operation at least once and onRetry
\* exactly once less than the operation
C36_InvocationBounds ==
    [][wr.maxRetries >= 1 =>
         /\ wr'.calls <= wr.maxRetries
         /\ wr.pc \in {"returned", "threw"}
               => (wr'.calls = wr.calls /\ wr'.retries = wr.retries)
         /\ wr'.pc \in {"returned", "threw"}
               => (wr'.calls >= 1 /\ Len(wr'.retries) = wr'.calls - 1)]_vars

\* C36's case: the first two of four allowed attempts failed with retryable
\* errors and the third returned
C36_Witness ==
    /\ wr.pc = "returned"
    /\ wr.maxRetries = 4
    /\ wr.calls = 3
    /\ Len(wr.retries) = 2
    /\ wr.lastError.status = 500

\* C37: each row of the preview is created in the store at most once, also
\* when the import is started again from the same dialog after some rows failed
C37_RowCreatedOnce ==
    \A j \in 1 .. Len(imp.previewData) :
        Cardinality({k \in 1 .. Len(imp.createdRows) : imp.createdRows[k] = j}) <= 1

\* C35: when a bulk delete ends, a selected record whose delete request failed
\* (and which the store still holds) is still in the dashboard's list: only
\* records whose delete succeeded are removed
C35_FailedDeleteStaysListed ==
    [][(del.bulk.pc = "delete" /\ del'.bulk.pc = "done") =>
         \A id \in Range(del.styles) :
             (id \in del'.bulk.failed /\ id \in del'.present)
               => id \in Range(del'.styles)]_vars

\* C34: the dashboard's record list never holds two entries with the same
\* record id
C34_NoDuplicateIds ==
    \A a, b \in DOMAIN lst.styles : lst.styles[a] = lst.styles[b] => a = b

\* the persist calls of the row that have not completed
RowOpsInFlight == {o \in BagToSet(ops) : o.kind = "row"}

\* C31: in every reachable state, a row whose save status is idle is not dirty
\* and has no persist in flight, and a row whose save status is saving has a
\* persist in flight
C31_StatusMatchesFlags ==
    /\ saveStatus = "idle" => (~hasUnsavedChanges /\ RowOpsInFlight = {})
    /\ saveStatus = "saving" => RowOpsInFlight # {}

\* C32: with a store that accepts every update and fair scheduling, a row
\* that is dirty with a valid local snapshot eventually is not dirty with
\* status idle (unless the user makes the snapshot invalid in the meantime)
C32_DirtyEventuallyClean ==
    (hasUnsavedChanges /\ ValidateStyleDataIsValid(localStyle))
        ~> \/ ~hasUnsavedChanges /\ saveStatus = "idle"
           \/ ~ValidateStyleDataIsValid(localStyle)

\* C33: in every quiescent state of the client (the row is not dirty, no
\* debounce timer is pending, no persist is in flight, every push event and
\* fetch answer has been delivered) the row's local snapshot equals the record's
\* value in the store
C33_Convergence ==
    (/\ ~hasUnsavedChanges
     /\ debounceTimer = <<>>
     /\ ops = EmptyBag
     /\ pushQ = <<>>
     /\ fetchResp = <<>>)
        => localStyle = server

====
